---- MODULE Spec2Model ----
(***************************************************************************)
(* Model of the type-erased dataflow analysis driver                       *)
(* (TypeErasedDataflowAnalysis.cpp): computeBlockInputState, transferBlock *)
(* and runTypeErasedDataflowAnalysis, over small control-flow graphs and   *)
(* small analysis plugins.                                                 *)
(***************************************************************************)
EXTENDS Integers, Sequences, FiniteSets, TLC

\* Height of the plugin lattice: lattice elements are 0..LatticeHeight.
LatticeHeight == 2

\* Height of the Environment chain: environments are 0..EnvHeight.
EnvHeight == 1

\* static constexpr uint32_t MaxIterations = 1 << 16;
MaxIterations == 65536

\* A null CFGBlock pointer (an unreachable edge, or no block).
Null == -1

Max(a, b) == IF a >= b THEN a ELSE b

Min(a, b) == IF a <= b THEN a ELSE b

Range(s) == {s[i] : i \in 1..Len(s)}

\* All iteration orders of a set: the sequences that list it without repeats.
Perms(S) ==
  {p \in [1..Cardinality(S) -> S] : \A i, j \in 1..Cardinality(S) : p[i] = p[j] => i = j}

(***************************************************************************)
(* llvm::Optional<TypeErasedDataflowAnalysisState>                         *)
(***************************************************************************)
None == [hasValue |-> FALSE, Lattice |-> 0, Env |-> 0]

Some(l, e) == [hasValue |-> TRUE, Lattice |-> l, Env |-> e]

(***************************************************************************)
(* The control-flow graph.  A graph is a record                            *)
(*   n        number of blocks; block identifiers are 0..n-1               *)
(*   entry    the entry block                                              *)
(*   edges    <<from, to, reachable>> in the order they were added         *)
(*   noReturn the blocks with a no-return element                          *)
(*   dtor     the blocks with a temporary-destructor-branch terminator     *)
(*   term     block -> block holding its terminator statement (or Null)    *)
(*   elems    block -> sequence of elements                                *)
(***************************************************************************)
Blocks(G) == 0..(G.n - 1)

\* Block->succs(): the reachable block of every successor edge, Null for an
\* edge pruned as unreachable.
Succs(G, b) ==
  LET es == SelectSeq(G.edges, LAMBDA e : e[1] = b)
  IN [i \in 1..Len(es) |-> IF es[i][3] THEN es[i][2] ELSE Null]

\* Block.pred_begin()..pred_end(): one entry per incoming edge.
Preds(G, b) ==
  LET es == SelectSeq(G.edges, LAMBDA e : e[2] = b)
  IN [i \in 1..Len(es) |-> IF es[i][3] THEN es[i][1] ELSE Null]

hasNoReturnElement(G, b) == b \in G.noReturn

isTemporaryDtorsBranch(G, b) == b \in G.dtor

\* CFCtx.getStmtToBlock().find(Block.getTerminatorStmt())
TerminatorStmtBlock(G, b) == G.term[b]

\* Elements.
Stmt(w, ref) == [kind |-> "Statement", w |-> w, ref |-> ref, loc |-> FALSE, val |-> FALSE, isRef |-> FALSE]

Initializer(loc, val, isRef) == [kind |-> "Initializer", w |-> 0, ref |-> Null, loc |-> loc, val |-> val, isRef |-> isRef]

OtherElement == [kind |-> "Other", w |-> 0, ref |-> Null, loc |-> FALSE, val |-> FALSE, isRef |-> FALSE]

(***************************************************************************)
(* The graphs analysed.  Every graph has an entry block without elements   *)
(* and without predecessors ("The entry basic block doesn't contain        *)
(* statements"), so the entry block never carries the no-return flag.      *)
(***************************************************************************)
\* A -> B -> C
ChainCFG ==
  [name |-> "chain", n |-> 3, entry |-> 2,
   edges |-> << <<2, 1, TRUE>>, <<1, 0, TRUE>> >>,
   noReturn |-> {}, dtor |-> {},
   term |-> [b \in 0..2 |-> Null],
   elems |-> [b \in 0..2 |-> CASE b = 1 -> <<Stmt(1, Null)>>
                               [] b = 0 -> <<Stmt(1, Null), OtherElement>>
                               [] OTHER -> <<>>]]

\* A -> {B, C} -> D, B listed first among A's successors
DiamondCFG ==
  [name |-> "diamond", n |-> 4, entry |-> 3,
   edges |-> << <<3, 2, TRUE>>, <<3, 1, TRUE>>, <<2, 0, TRUE>>, <<1, 0, TRUE>> >>,
   noReturn |-> {}, dtor |-> {},
   term |-> [b \in 0..3 |-> Null],
   elems |-> [b \in 0..3 |-> CASE b = 2 -> <<Stmt(1, Null), Stmt(1, Null)>>
                               [] b = 1 -> <<Initializer(TRUE, TRUE, FALSE), Stmt(1, Null)>>
                               [] b = 0 -> <<Stmt(0, Null)>>
                               [] OTHER -> <<>>]]

\* The same diamond with C listed first among A's successors
DiamondCFG2 ==
  [DiamondCFG EXCEPT !.name = "diamond2",
     !.edges = << <<3, 1, TRUE>>, <<3, 2, TRUE>>, <<1, 0, TRUE>>, <<2, 0, TRUE>> >>]

\* entry -> B, B -> B
SelfLoopCFG ==
  [name |-> "selfloop", n |-> 2, entry |-> 1,
   edges |-> << <<1, 0, TRUE>>, <<0, 0, TRUE>> >>,
   noReturn |-> {}, dtor |-> {},
   term |-> [b \in 0..1 |-> Null],
   elems |-> [b \in 0..1 |-> IF b = 0 THEN <<Stmt(1, Null)>> ELSE <<>>]]

\* entry -> head, head -> {body, exit}, body -> head
LoopCFG ==
  [name |-> "loop", n |-> 4, entry |-> 3,
   edges |-> << <<3, 2, TRUE>>, <<2, 1, TRUE>>, <<2, 0, TRUE>>, <<1, 2, TRUE>> >>,
   noReturn |-> {}, dtor |-> {},
   term |-> [b \in 0..3 |-> Null],
   elems |-> [b \in 0..3 |-> CASE b = 2 -> <<OtherElement>>
                               [] b = 1 -> <<Initializer(TRUE, TRUE, FALSE), Stmt(0, Null)>>
                               [] b = 0 -> <<Initializer(TRUE, FALSE, FALSE), Stmt(1, Null)>>
                               [] OTHER -> <<>>]]

\* 5 -> 4, 4 -> {3, 2}, 3 (no-return) -> {1, 0}, 2 -> 0, 1 -> 0
NoReturnCFG ==
  [name |-> "noreturn", n |-> 6, entry |-> 5,
   edges |-> << <<5, 4, TRUE>>, <<4, 3, TRUE>>, <<4, 2, TRUE>>, <<3, 1, TRUE>>,
                <<3, 0, TRUE>>, <<2, 0, TRUE>>, <<1, 0, TRUE>> >>,
   noReturn |-> {3}, dtor |-> {},
   term |-> [b \in 0..5 |-> Null],
   elems |-> [b \in 0..5 |-> CASE b = 4 -> <<Stmt(1, Null)>>
                               [] b = 3 -> <<Stmt(1, Null), Stmt(1, Null)>>
                               [] b = 1 -> <<Stmt(1, Null)>>
                               [] OTHER -> <<>>]]

\* The graph of the comment in computeBlockInputState:
\* B1 -> {B2, B3}, B2 -> B4, B3 -> B4, B4 (temporary destructor terminator)
\* -> {B5, B6}, B5 no-return; 7 is the entry and 0 the exit.
DtorCFG ==
  [name |-> "dtor", n |-> 8, entry |-> 7,
   edges |-> << <<7, 1, TRUE>>, <<1, 2, TRUE>>, <<1, 3, TRUE>>, <<2, 4, TRUE>>,
                <<3, 4, TRUE>>, <<4, 5, TRUE>>, <<4, 6, TRUE>>, <<5, 0, TRUE>>,
                <<6, 0, TRUE>> >>,
   noReturn |-> {5}, dtor |-> {4},
   term |-> [b \in 0..7 |-> IF b = 4 THEN 3 ELSE Null],
   elems |-> [b \in 0..7 |-> CASE b = 2 -> <<Stmt(1, Null)>>
                               [] b = 3 -> <<Stmt(1, Null), Stmt(1, Null)>>
                               [] b = 5 -> <<Stmt(1, Null)>>
                               [] OTHER -> <<>>]]

\* The same graph when the destructor block B5 returns
DtorReturnsCFG == [DtorCFG EXCEPT !.name = "dtorReturns", !.noReturn = {}]

\* a && b: 3 holds a, 2 holds b, 1 holds the operator and reads the
\* environments at a and at b; 4 is the entry and 0 the exit.
LogicCFG ==
  [name |-> "logic", n |-> 5, entry |-> 4,
   edges |-> << <<4, 3, TRUE>>, <<3, 2, TRUE>>, <<3, 1, TRUE>>, <<2, 1, TRUE>>,
                <<1, 0, TRUE>> >>,
   noReturn |-> {}, dtor |-> {},
   term |-> [b \in 0..4 |-> Null],
   elems |-> [b \in 0..4 |-> CASE b = 3 -> <<Stmt(1, Null)>>
                               [] b = 2 -> <<Initializer(TRUE, TRUE, FALSE)>>
                               [] b = 1 -> <<Stmt(0, 3), Stmt(1, 2)>>
                               [] OTHER -> <<>>]]

\* A pruned edge and a doubled edge: 2 -> 1 is unreachable, 2 -> 0 twice.
PrunedCFG ==
  [name |-> "pruned", n |-> 4, entry |-> 3,
   edges |-> << <<3, 2, TRUE>>, <<2, 1, FALSE>>, <<2, 0, TRUE>>, <<2, 0, TRUE>>,
                <<1, 0, TRUE>> >>,
   noReturn |-> {}, dtor |-> {},
   term |-> [b \in 0..3 |-> Null],
   elems |-> [b \in 0..3 |-> CASE b = 2 -> <<Stmt(1, Null)>>
                               [] b = 1 -> <<Stmt(1, Null)>>
                               [] b = 0 -> <<Initializer(FALSE, FALSE, FALSE), Stmt(1, Null)>>
                               [] OTHER -> <<>>]]

\* The same graph when the other branch B2 has a no-return element too: no
\* predecessor of B4 is left to join.
DtorSeedCFG == [DtorCFG EXCEPT !.name = "dtorSeed", !.noReturn = {2, 5}]

\* Block 1 has every kind of predecessor: 3 has a no-return element, the edge
\* from 4 is unreachable (null), 0 reaches it by a loop back edge and 2 is an
\* ordinary predecessor; 5 is the entry.
SkipsCFG ==
  [name |-> "skips", n |-> 6, entry |-> 5,
   edges |-> << <<5, 4, TRUE>>, <<4, 3, TRUE>>, <<4, 2, TRUE>>, <<4, 1, FALSE>>,
                <<3, 1, TRUE>>, <<2, 1, TRUE>>, <<1, 0, TRUE>>, <<0, 1, TRUE>> >>,
   noReturn |-> {3}, dtor |-> {},
   term |-> [b \in 0..5 |-> Null],
   elems |-> [b \in 0..5 |-> CASE b = 4 -> <<Stmt(1, Null)>>
                               [] b = 3 -> <<Stmt(1, Null), Initializer(TRUE, TRUE, TRUE)>>
                               [] b = 1 -> <<Stmt(0, Null)>>
                               [] b = 0 -> <<OtherElement>>
                               [] OTHER -> <<>>]]

\* The graph of the comment when the terminator of B4 is an ordinary branch
\* on a statement of B3: B5 still has a no-return element.
DtorOtherCFG == [DtorCFG EXCEPT !.name = "dtorOther", !.dtor = {}]

\* The graph of the comment when B4 holds the conditional operator itself,
\* a statement that reads the Environment at its operand in B3, and B3
\* binds a reference member.
DtorOperandCFG ==
  [DtorCFG EXCEPT !.name = "dtorOperand",
     !.elems = [b \in 0..7 |-> CASE b = 3 -> <<Stmt(1, Null), Initializer(TRUE, TRUE, TRUE)>>
                                 [] b = 4 -> <<OtherElement, Stmt(0, 3), Stmt(1, Null)>>
                                 [] OTHER -> <<>>]]

\* A chain whose middle block holds only elements that do nothing: two
\* initializers whose expression has no location or no value, and an
\* element of another kind; the last block holds an initializer that can
\* set its member.
NoOpCFG ==
  [name |-> "noOp", n |-> 3, entry |-> 2,
   edges |-> << <<2, 1, TRUE>>, <<1, 0, TRUE>> >>,
   noReturn |-> {}, dtor |-> {},
   term |-> [b \in 0..2 |-> Null],
   elems |-> [b \in 0..2 |-> CASE b = 1 -> <<Initializer(FALSE, TRUE, FALSE),
                                               Initializer(TRUE, FALSE, TRUE), OtherElement>>
                               [] b = 0 -> <<Initializer(TRUE, TRUE, FALSE)>>
                               [] OTHER -> <<>>]]

CFGs ==
  {NoOpCFG, DtorOperandCFG, ChainCFG, DiamondCFG, DiamondCFG2, SelfLoopCFG, LoopCFG, NoReturnCFG,
   DtorCFG, DtorReturnsCFG, DtorSeedCFG, DtorOtherCFG, LogicCFG, PrunedCFG,
   SkipsCFG}

(***************************************************************************)
(* The analysis plugins (TypeErasedDataflowAnalysis).  A plugin is a       *)
(* record: join and eq name its lattice join and equality, tf its          *)
(* transfer function, builtin its applyBuiltinTransfer() flag and init its *)
(* typeErasedInitialElement().                                             *)
(***************************************************************************)
\* Monotone counting analysis with the built-in transfer.
CountAnalysis == [name |-> "count", join |-> "max", eq |-> "id", tf |-> "count", builtin |-> TRUE, init |-> 0]

\* The same without the built-in transfer.
PlainCountAnalysis == [CountAnalysis EXCEPT !.name = "plain", !.builtin = FALSE]

\* Identity transfer functions, initial element 1.
IdentityAnalysis == [name |-> "identity", join |-> "max", eq |-> "id", tf |-> "ident", builtin |-> FALSE, init |-> 1]

\* Monotone: raises the lattice element to the top, then the Environment.
StagedAnalysis == [name |-> "staged", join |-> "max", eq |-> "id", tf |-> "stage", builtin |-> FALSE, init |-> 0]

\* A join that is not commutative: it keeps its first argument.
LeftAnalysis == [CountAnalysis EXCEPT !.name = "left", !.join = "left"]

\* An equality coarser than identity: all elements above 0 are equal.
CoarseAnalysis == [PlainCountAnalysis EXCEPT !.name = "coarse", !.eq = "coarse"]

\* Not monotone: every statement flips the element between 0 and 1.
FlipAnalysis == [name |-> "flip", join |-> "max", eq |-> "id", tf |-> "flip", builtin |-> FALSE, init |-> 0]

\* Monotone, with the built-in transfer: every statement raises the lattice
\* element to the height of the Environment it is handed.
EnvReadingAnalysis == [name |-> "envReading", join |-> "max", eq |-> "id", tf |-> "readEnv", builtin |-> TRUE, init |-> 0]

Analyses ==
  {EnvReadingAnalysis, CountAnalysis, PlainCountAnalysis, IdentityAnalysis, StagedAnalysis,
   LeftAnalysis, CoarseAnalysis, FlipAnalysis}

\* Analysis.typeErasedInitialElement()
typeErasedInitialElement(A) == A.init

\* Analysis.joinTypeErased(MaybeState->Lattice, PredState.Lattice)
joinTypeErased(A, l1, l2) == IF A.join = "max" THEN Max(l1, l2) ELSE l1

\* Analysis.isEqualTypeErased(Old.Lattice, New.Lattice)
isEqualTypeErased(A, l1, l2) ==
  IF A.eq = "id" THEN l1 = l2 ELSE (l1 = l2) \/ (l1 >= 1 /\ l2 >= 1)

\* Analysis.transferTypeErased(S, State.Lattice, State.Env)
transferTypeErased(A, S, st) ==
  CASE A.tf = "ident" -> st
    [] A.tf = "count" -> [st EXCEPT !.Lattice = Min(@ + S.w, LatticeHeight)]
    [] A.tf = "readEnv" -> [st EXCEPT !.Lattice = Min(Max(@, st.Env), LatticeHeight)]
    [] A.tf = "stage" ->
         IF st.Lattice < LatticeHeight
           THEN [st EXCEPT !.Lattice = Min(@ + S.w, LatticeHeight)]
           ELSE [st EXCEPT !.Env = Min(@ + S.w, EnvHeight)]
    [] OTHER -> [st EXCEPT !.Lattice = IF S.w = 0 THEN @ ELSE IF @ = 0 THEN 1 ELSE 0]

\* MaybeState->Env.join(PredState.Env, Analysis)
EnvJoin(e1, e2) == Max(e1, e2)

\* OldBlockState->Env.equivalentTo(NewBlockState.Env, Analysis)
equivalentTo(e1, e2) == e1 = e2

(***************************************************************************)
(* StmtToEnvMapImpl and the transfer of a block's elements                 *)
(***************************************************************************)
\* Variant: the slot is looked up by the position of the statement instead
\* of the identifier of its block, which yields the slot of the block before.
getEnvironmentOffByOne(BlockStates_, B) ==
  IF B - 1 \in DOMAIN BlockStates_ THEN BlockStates_[B - 1].Env ELSE 0

\* StmtToEnvMapImpl::getEnvironment(S): the Environment stored for the block
\* that holds S (B is that block, the result of the statement lookup).
getEnvironment(BlockStates_, B) == BlockStates_[B].Env

\* transfer(StmtToEnvMapImpl(CFCtx, BlockStates), *S, State.Env): the
\* built-in transfer of a statement; a statement with a sub-expression in
\* another block merges the Environment stored at that sub-expression.
transfer(BlockStates_, S, Env) ==
  IF S.ref = Null THEN Env ELSE EnvJoin(Env, getEnvironment(BlockStates_, S.ref))

\* transferCFGStmt
transferCFGStmt(BlockStates_, S, A, State) ==
  LET Built == IF A.builtin
                 THEN [State EXCEPT !.Env = transfer(BlockStates_, S, State.Env)]
                 ELSE State
  IN transferTypeErased(A, S, Built)

\* Variant: the member is set although the location of the initializer's
\* expression has no value.
transferCFGInitializerIgnoresValue(I, State) ==
  IF ~I.loc THEN State
  ELSE IF I.isRef THEN [State EXCEPT !.Env = EnvHeight]
  ELSE [State EXCEPT !.Env = Min(@ + 1, EnvHeight)]

\* transferCFGInitializer: nothing happens unless the initializer's
\* expression has a storage location and that location a value; then the
\* member is set, to a reference for a member of reference type.
transferCFGInitializer(I, State) ==
  IF ~I.loc THEN State
  ELSE IF ~I.val THEN State
  ELSE IF I.isRef THEN [State EXCEPT !.Env = EnvHeight]
  ELSE [State EXCEPT !.Env = Min(@ + 1, EnvHeight)]

\* One iteration of the loop over the elements of transferBlock.
transferElement(BlockStates_, E, A, State) ==
  CASE E.kind = "Statement" -> transferCFGStmt(BlockStates_, E, A, State)
    [] E.kind = "Initializer" ->
         IF A.builtin THEN transferCFGInitializer(E, State) ELSE State
    [] OTHER -> State

RECURSIVE transferElements(_, _, _, _)
\* for (const CFGElement &Element : Block): in order, on one running state.
transferElements(BlockStates_, Es, A, State) ==
  IF Es = <<>> THEN State
  ELSE transferElements(BlockStates_, Tail(Es), A,
                        transferElement(BlockStates_, Head(Es), A, State))

\* Variant: the callback is handed the state as it is before the plugin's
\* transfer of the statement.
transferCFGStmtEventsHandleFirst(BlockStates_, S, A, State, Handle, i) ==
  LET Built == IF A.builtin
                 THEN [State EXCEPT !.Env = transfer(BlockStates_, S, State.Env)]
                 ELSE State
  IN (IF A.builtin THEN <<[call |-> "transfer", elem |-> i, state |-> Built]>> ELSE <<>>)
     \o (IF Handle
          THEN <<[call |-> "HandleTransferredStmt", elem |-> i, state |-> Built]>>
          ELSE <<>>)
     \o <<[call |-> "transferTypeErased", elem |-> i, state |-> transferTypeErased(A, S, Built)]>>

\* transferCFGStmt as the calls it makes for the statement S, element i of
\* its block, each with the state as the call leaves it: transfer (if
\* applyBuiltinTransfer()), transferTypeErased, HandleTransferredStmt (if
\* it is not null; Handle says so).
transferCFGStmtEvents(BlockStates_, S, A, State, Handle, i) ==
  LET Built == IF A.builtin
                 THEN [State EXCEPT !.Env = transfer(BlockStates_, S, State.Env)]
                 ELSE State
      Done == transferTypeErased(A, S, Built)
  IN (IF A.builtin THEN <<[call |-> "transfer", elem |-> i, state |-> Built]>> ELSE <<>>)
     \o <<[call |-> "transferTypeErased", elem |-> i, state |-> Done]>>
     \o (IF Handle
          THEN <<[call |-> "HandleTransferredStmt", elem |-> i, state |-> Done]>>
          ELSE <<>>)

RECURSIVE transferElementsEvents(_, _, _, _, _, _)
\* The calls made by the loop of transferBlock over the elements i.. of Es,
\* the running state being State: only statements make any.
transferElementsEvents(BlockStates_, Es, A, State, Handle, i) ==
  IF i > Len(Es) THEN <<>>
  ELSE (IF Es[i].kind = "Statement"
          THEN transferCFGStmtEvents(BlockStates_, Es[i], A, State, Handle, i)
          ELSE <<>>)
       \o transferElementsEvents(BlockStates_, Es, A,
                                  transferElement(BlockStates_, Es[i], A, State),
                                  Handle, i + 1)

(***************************************************************************)
(* computeBlockInputState                                                  *)
(***************************************************************************)
\* Variant: the special case erases nothing.
PredsToJoinKeepsAll(G, Block, Order) == Order

\* Variant: the special case erases the block of the terminator statement
\* whether or not the first successor has a no-return element.
PredsToJoinErasesAlways(G, Block, Order) ==
  IF isTemporaryDtorsBranch(G, Block)
  THEN SelectSeq(Order, LAMBDA p : p # TerminatorStmtBlock(G, Block))
  ELSE Order

\* Variant: the loop runs over the predecessor edges themselves, one
\* iteration per edge, instead of over the set built from them.
PredsToJoinPerEdge(G, Block, Order) ==
  IF /\ isTemporaryDtorsBranch(G, Block)
     /\ hasNoReturnElement(G, Succs(G, Block)[1])
  THEN SelectSeq(Preds(G, Block), LAMBDA p : p # TerminatorStmtBlock(G, Block))
  ELSE Preds(G, Block)

\* The set Preds after the insert and the erase of the special case, listed
\* in the iteration order Order of the DenseSet.
PredsToJoin(G, Block, Order) ==
  IF /\ isTemporaryDtorsBranch(G, Block)
     /\ hasNoReturnElement(G, Succs(G, Block)[1])
  THEN SelectSeq(Order, LAMBDA p : p # TerminatorStmtBlock(G, Block))
  ELSE Order

\* Variant: a predecessor with a no-return element is joined like any other.
SkipsPredJoinsNoReturn(G, BlockStates_, Pred) ==
  \/ Pred = Null
  \/ ~BlockStates_[Pred].hasValue

\* Whether the loop over Preds skips Pred.
SkipsPred(G, BlockStates_, Pred) ==
  \/ Pred = Null
  \/ hasNoReturnElement(G, Pred)
  \/ ~BlockStates_[Pred].hasValue

\* Variant: a later predecessor is counted as joined but the accumulator
\* keeps the first surviving state.
JoinPredKeepsFirst(A, Acc, PredState) ==
  IF Acc.MaybeState.hasValue
  THEN [MaybeState |-> Acc.MaybeState, joins |-> Acc.joins + 1]
  ELSE [MaybeState |-> PredState, joins |-> Acc.joins]

\* Variant: a later predecessor is counted as joined and its state replaces
\* the accumulator.
JoinPredKeepsLast(A, Acc, PredState) ==
  [MaybeState |-> PredState,
   joins |-> IF Acc.MaybeState.hasValue THEN Acc.joins + 1 ELSE Acc.joins]

\* Variant: a later predecessor is merged by the lattice join only, the
\* accumulator keeping its Environment.
JoinPredLatticeOnly(A, Acc, PredState) ==
  IF Acc.MaybeState.hasValue
  THEN [MaybeState |-> Some(joinTypeErased(A, Acc.MaybeState.Lattice, PredState.Lattice),
                            Acc.MaybeState.Env),
        joins |-> Acc.joins + 1]
  ELSE [MaybeState |-> PredState, joins |-> Acc.joins]

\* The body of the loop over Preds for one predecessor that is not skipped.
\* Acc is [MaybeState, joins]: the accumulator and the number of joins made.
JoinPred(A, Acc, PredState) ==
  IF Acc.MaybeState.hasValue
  THEN [MaybeState |-> Some(joinTypeErased(A, Acc.MaybeState.Lattice, PredState.Lattice),
                            EnvJoin(Acc.MaybeState.Env, PredState.Env)),
        joins |-> Acc.joins + 1]
  ELSE [MaybeState |-> PredState, joins |-> Acc.joins]

RECURSIVE JoinPreds(_, _, _, _, _)
\* for (const CFGBlock *Pred : Preds)
JoinPreds(G, BlockStates_, A, Ps, Acc) ==
  IF Ps = <<>> THEN Acc
  ELSE JoinPreds(G, BlockStates_, A, Tail(Ps),
                 IF SkipsPred(G, BlockStates_, Head(Ps))
                   THEN Acc
                   ELSE JoinPred(A, Acc, BlockStates_[Head(Ps)]))

\* Variant: the accumulator starts as the initial state and every surviving
\* predecessor is joined into it.
computeBlockInputStateSeeded(G, BlockStates_, Block, IEnv, A, Order) ==
  LET Acc == JoinPreds(G, BlockStates_, A, PredsToJoin(G, Block, Order),
                       [MaybeState |-> Some(typeErasedInitialElement(A), IEnv), joins |-> 0])
  IN [State |-> Acc.MaybeState, joins |-> Acc.joins]

\* Variant: without a surviving predecessor the initial element is paired
\* with an empty Environment instead of the caller's.
computeBlockInputStateEmptyEnv(G, BlockStates_, Block, IEnv, A, Order) ==
  LET Acc == JoinPreds(G, BlockStates_, A, PredsToJoin(G, Block, Order),
                       [MaybeState |-> None, joins |-> 0])
  IN IF ~Acc.MaybeState.hasValue
       THEN [State |-> Some(typeErasedInitialElement(A), 0), joins |-> Acc.joins]
       ELSE [State |-> Acc.MaybeState, joins |-> Acc.joins]

\* computeBlockInputState: [State, joins]
computeBlockInputState(G, BlockStates_, Block, IEnv, A, Order) ==
  LET Acc == JoinPreds(G, BlockStates_, A, PredsToJoin(G, Block, Order),
                       [MaybeState |-> None, joins |-> 0])
  IN IF ~Acc.MaybeState.hasValue
       THEN [State |-> Some(typeErasedInitialElement(A), IEnv), joins |-> Acc.joins]
       ELSE [State |-> Acc.MaybeState, joins |-> Acc.joins]

\* transferBlock: [Input, State, joins], the input state of the block, its
\* state after its elements and the number of joins made for the input.
transferBlock(G, BlockStates_, Block, IEnv, A, Order) ==
  LET In == computeBlockInputState(G, BlockStates_, Block, IEnv, A, Order)
  IN [Input |-> In.State,
      State |-> transferElements(BlockStates_, G.elems[Block], A, In.State),
      joins |-> In.joins]

(***************************************************************************)
(* PostOrderCFGView and ForwardDataflowWorklist                            *)
(***************************************************************************)
RECURSIVE VisitBlock(_, _, _)
RECURSIVE VisitSuccs(_, _, _)
\* Depth-first walk from b: T is [seen, order].
VisitBlock(G, b, T) ==
  LET T1 == VisitSuccs(G, Succs(G, b), [T EXCEPT !.seen = @ \cup {b}])
  IN [T1 EXCEPT !.order = Append(@, b)]

VisitSuccs(G, Ss, T) ==
  IF Ss = <<>> THEN T
  ELSE VisitSuccs(G, Tail(Ss),
                  IF Head(Ss) = Null \/ Head(Ss) \in T.seen
                    THEN T
                    ELSE VisitBlock(G, Head(Ss), T))

\* PostOrderCFGView: block -> its number in a post-order walk from the
\* entry block (1 is the first block finished), 0 for a block not walked.
PostOrderCFGView(G) ==
  LET order == VisitBlock(G, G.entry, [seen |-> {}, order |-> <<>>]).order
  IN [b \in Blocks(G) |->
        IF \E i \in 1..Len(order) : order[i] = b
          THEN CHOOSE i \in 1..Len(order) : order[i] = b
          ELSE 0]

\* Worklist.enqueueSuccessors(Block): a block already enqueued is not
\* enqueued again, a null successor is ignored.
enqueueSuccessors(W, G, Block) == W \cup (Range(Succs(G, Block)) \ {Null})

\* Variant: the enqueued block that comes last in reverse post-order.
dequeueLast(W, Order) == CHOOSE b \in W : \A c \in W : Order[b] <= Order[c]

\* Worklist.dequeue(): the enqueued block that comes first in reverse
\* post-order.
dequeue(W, Order) == CHOOSE b \in W : \A c \in W : Order[b] >= Order[c]

(***************************************************************************)
(* runTypeErasedDataflowAnalysis                                           *)
(***************************************************************************)
VARIABLES
  cfg,          \* CFCtx.getCFG()
  Analysis,     \* the plugin
  InitEnv,      \* the caller's initial Environment
  PredOrder,    \* PredOrder[b + 1]: iteration order of the DenseSet Preds of b
  POV,          \* PostOrderCFGView POV(&CFCtx.getCFG())
  BlockStates,  \* std::vector<llvm::Optional<TypeErasedDataflowAnalysisState>>
  Worklist,     \* ForwardDataflowWorklist: the set of enqueued blocks
  Iterations,   \* uint32_t Iterations
  pc,           \* "loop", or the outcome: "done" (the Store) or "timeout"
  Visits,       \* history: how often each block went through transferBlock
  JoinCalls,    \* history: calls of joinTypeErased made so far
  InputState,   \* history: the last input state computed for each block
  Events        \* the last call of transferBlock by a caller: its block,
                \* whether it passed a callback, the calls made, the result

vars ==
  <<cfg, Analysis, InitEnv, PredOrder, POV, BlockStates, Worklist, Iterations,
    pc, Visits, JoinCalls, InputState, Events>>

\* The deduplicated predecessors of b: llvm::DenseSet<const CFGBlock *> Preds.
PredSet(G, b) == Range(Preds(G, b))

RECURSIVE PredOrders(_, _)
\* Every way the DenseSets of blocks 0..k-1 may iterate.
PredOrders(G, k) ==
  IF k = 0 THEN {<<>>}
  ELSE {Append(o, p) : o \in PredOrders(G, k - 1), p \in Perms(PredSet(G, k - 1))}

\* Variant: the entry block is seeded with an empty Environment instead of
\* the caller's.
InitialBlockStatesEmptyEnv(G, A, IEnv) ==
  [b \in Blocks(G) |->
     IF b = G.entry THEN Some(typeErasedInitialElement(A), 0) ELSE None]

\* Variant: the Store is resized to one slot more than the graph has blocks.
InitialBlockStatesOversized(G, A, IEnv) ==
  [b \in 0..G.n |->
     IF b = G.entry THEN Some(typeErasedInitialElement(A), IEnv) ELSE None]

\* Variant: every slot is seeded, not only the entry block's.
InitialBlockStatesAllSeeded(G, A, IEnv) ==
  [b \in Blocks(G) |-> Some(typeErasedInitialElement(A), IEnv)]

\* Variant: the Store is resized and the entry block is not seeded.
InitialBlockStatesNoEntry(G, A, IEnv) ==
  [b \in Blocks(G) |-> None]

\* BlockStates.resize(CFCtx.getCFG().size(), llvm::None) and the assignment
\* of {initial element, InitEnv} to the slot of the entry block.
InitialBlockStates(G, A, IEnv) ==
  [b \in Blocks(G) |->
     IF b = G.entry THEN Some(typeErasedInitialElement(A), IEnv) ELSE None]

\* Variant: the comparison with the cap is off by one.
IterationsExceededEarly(I) == I >= MaxIterations

\* Variant: the comparison with the cap allows one more iteration.
IterationsExceededLate(I) == I > MaxIterations + 1

\* ++Iterations > MaxIterations, I being the value after the increment.
IterationsExceeded(I) == I > MaxIterations

\* No call of transferBlock by a caller yet.
NoEvents == [block |-> Null, handle |-> FALSE, calls |-> <<>>, state |-> None]

\* The state when the main loop is reached: the Store sized to the graph,
\* the entry block seeded, its successors enqueued, no iteration made.
Init ==
  /\ cfg \in CFGs
  /\ Analysis \in Analyses
  /\ InitEnv \in 0..EnvHeight
  /\ PredOrder \in PredOrders(cfg, cfg.n)
  /\ POV = PostOrderCFGView(cfg)
  /\ BlockStates = InitialBlockStates(cfg, Analysis, InitEnv)
  /\ Worklist = enqueueSuccessors({}, cfg, cfg.entry)
  /\ Iterations = 0
  /\ pc = "loop"
  /\ Visits = [b \in Blocks(cfg) |-> 0]
  /\ JoinCalls = 0
  /\ InputState = [b \in Blocks(cfg) |-> None]
  /\ Events = NoEvents

\* Variant: the Environment comparison is negated.
UnchangedEnvNegated(A, Old, New) ==
  /\ Old.hasValue
  /\ isEqualTypeErased(A, Old.Lattice, New.Lattice)
  /\ ~equivalentTo(Old.Env, New.Env)

\* Variant: only the lattice elements are compared.
UnchangedLatticeOnly(A, Old, New) ==
  /\ Old.hasValue
  /\ isEqualTypeErased(A, Old.Lattice, New.Lattice)

\* Variant: the new state is never dropped.
UnchangedNever(A, Old, New) == FALSE

\* The test that decides whether the new state is dropped.
Unchanged(A, Old, New) ==
  /\ Old.hasValue
  /\ isEqualTypeErased(A, Old.Lattice, New.Lattice)
  /\ equivalentTo(Old.Env, New.Env)

\* Variant: the no-return flag is not looked at.
EnqueuesSuccessorsAlways(G, Block) == TRUE

\* Variant: a block with a no-return element enqueues its successors the
\* first time a state is stored for it.
EnqueuesSuccessorsFirstTime(G, Block) ==
  ~hasNoReturnElement(G, Block) \/ ~BlockStates[Block].hasValue

\* Variant: the successors are enqueued only the first time a state is
\* stored for Block.
EnqueuesSuccessorsOnce(G, Block) ==
  ~hasNoReturnElement(G, Block) /\ ~BlockStates[Block].hasValue

\* Whether the successors of Block are enqueued once its state is stored.
EnqueuesSuccessors(G, Block) == ~hasNoReturnElement(G, Block)

\* Variant: the accumulator of the join is the first surviving
\* predecessor's stored state itself, not a copy of it, so the input state
\* of the block is written into that predecessor's slot.
EvaluateSharesAccumulator(Kind) ==
  /\ pc = "loop"
  /\ Worklist # {}
  /\ ~IterationsExceeded(Iterations + 1)
  /\ LET Block == dequeue(Worklist, POV)
         New == transferBlock(cfg, BlockStates, Block, InitEnv, Analysis,
                              PredOrder[Block + 1])
         Same == Unchanged(Analysis, BlockStates[Block], New.State)
         Ps == SelectSeq(PredsToJoin(cfg, Block, PredOrder[Block + 1]),
                         LAMBDA P : ~SkipsPred(cfg, BlockStates, P))
         Shared == IF Ps = <<>> THEN BlockStates
                   ELSE [BlockStates EXCEPT ![Ps[1]] = New.Input]
     IN /\ Kind = IF Same THEN "unchanged"
                  ELSE IF EnqueuesSuccessors(cfg, Block) THEN "enqueue"
                  ELSE "noreturn"
        /\ Iterations' = Iterations + 1
        /\ BlockStates' = IF Same THEN Shared
                          ELSE [Shared EXCEPT ![Block] = New.State]
        /\ Worklist' = IF Kind = "enqueue"
                         THEN enqueueSuccessors(Worklist \ {Block}, cfg, Block)
                         ELSE Worklist \ {Block}
        /\ Visits' = [Visits EXCEPT ![Block] = @ + 1]
        /\ JoinCalls' = JoinCalls + New.joins
        /\ InputState' = [InputState EXCEPT ![Block] = New.Input]
  /\ UNCHANGED <<cfg, Analysis, InitEnv, PredOrder, POV, pc, Events>>

\* One iteration of the main loop that evaluates the dequeued block.  Kind
\* names the path taken: "unchanged" (the new state is dropped), "noreturn"
\* (stored, nothing enqueued) or "enqueue" (stored, successors enqueued).
\* Block, New and Same are the locals of the loop body, each computed once.
Evaluate(Kind) ==
  /\ pc = "loop"
  /\ Worklist # {}
  /\ ~IterationsExceeded(Iterations + 1)
  /\ \E Block \in {dequeue(Worklist, POV)} :
     \E New \in {transferBlock(cfg, BlockStates, Block, InitEnv, Analysis,
                              PredOrder[Block + 1])} :
     \E Same \in {Unchanged(Analysis, BlockStates[Block], New.State)} :
        /\ Kind = IF Same THEN "unchanged"
                  ELSE IF EnqueuesSuccessors(cfg, Block) THEN "enqueue"
                  ELSE "noreturn"
        /\ Iterations' = Iterations + 1
        /\ BlockStates' = IF Same THEN BlockStates
                          ELSE [BlockStates EXCEPT ![Block] = New.State]
        /\ Worklist' = IF Kind = "enqueue"
                         THEN enqueueSuccessors(Worklist \ {Block}, cfg, Block)
                         ELSE Worklist \ {Block}
        /\ Visits' = [Visits EXCEPT ![Block] = @ + 1]
        /\ JoinCalls' = JoinCalls + New.joins
        /\ InputState' = [InputState EXCEPT ![Block] = New.Input]
  /\ UNCHANGED <<cfg, Analysis, InitEnv, PredOrder, POV, pc, Events>>

\* The state of the block did not change: continue.
StepUnchanged ==
  /\ pc = "loop"
  /\ Evaluate("unchanged")

\* The new state is stored; the block has a no-return element: continue.
StepNoReturn ==
  /\ pc = "loop"
  /\ Evaluate("noreturn")

\* The new state is stored and the successors are enqueued.
StepEnqueue ==
  /\ pc = "loop"
  /\ Evaluate("enqueue")

\* A block is dequeued and ++Iterations > MaxIterations: the error is returned.
Timeout ==
  /\ pc = "loop"
  /\ Worklist # {}
  /\ IterationsExceeded(Iterations + 1)
  /\ Iterations' = Iterations + 1
  /\ Worklist' = Worklist \ {dequeue(Worklist, POV)}
  /\ pc' = "timeout"
  /\ UNCHANGED <<cfg, Analysis, InitEnv, PredOrder, POV, BlockStates, Visits, JoinCalls, InputState, Events>>

\* Variant: the loop does not end when the queue is empty.
ReturnSpins ==
  /\ pc = "loop"
  /\ Worklist = {}
  /\ UNCHANGED vars

\* dequeue() returns null: the loop ends and BlockStates is returned.
Return ==
  /\ pc = "loop"
  /\ Worklist = {}
  /\ pc' = "done"
  /\ UNCHANGED <<cfg, Analysis, InitEnv, PredOrder, POV, BlockStates, Worklist, Iterations, Visits, JoinCalls, InputState, Events>>

\* A caller that was returned the Store calls transferBlock on a block, with
\* a callback or without one, to see the states inside the block.
CallTransferBlock ==
  /\ pc = "done"
  /\ \E Block \in Blocks(cfg), Handle \in BOOLEAN :
       LET R == transferBlock(cfg, BlockStates, Block, InitEnv, Analysis,
                              PredOrder[Block + 1])
       IN Events' = [block |-> Block, handle |-> Handle,
                     calls |-> transferElementsEvents(BlockStates, cfg.elems[Block],
                                                      Analysis, R.Input, Handle, 1),
                     state |-> R.State]
  /\ UNCHANGED <<cfg, Analysis, InitEnv, PredOrder, POV, BlockStates, Worklist,
                 Iterations, pc, Visits, JoinCalls, InputState>>

Next ==
  StepUnchanged \/ StepNoReturn \/ StepEnqueue \/ Timeout \/ Return \/ CallTransferBlock

Spec == Init /\ [][Next]_vars

\* One iteration of the while loop of the driver, or its end.
Loop ==
  Timeout \/ Return \/ StepEnqueue \/ StepNoReturn \/ StepUnchanged

\* The driver is sequential code that runs to its return: while the loop
\* can make an iteration or end, it does. Nothing obliges a caller to call
\* transferBlock on the returned Store.
FairSpec == Spec /\ WF_vars(Loop)

(***************************************************************************)
(* Properties                                                              *)
(***************************************************************************)
\* The state a fresh evaluation of block b yields from the Store as it is.
Recomputed(b) ==
  transferBlock(cfg, BlockStates, b, InitEnv, Analysis, PredOrder[b + 1]).State

\* C1: when the run returns the Store, the Store is a fixpoint: for every
\* non-entry block whose slot is set, the input state recomputed from the
\* final Store by the predecessor join, transferred through the block's
\* elements, equals the stored state under the plugin's equality and the
\* Environment's equivalence.
C1_Fixpoint ==
  pc = "done" =>
    \A b \in Blocks(cfg) \ {cfg.entry} :
      BlockStates[b].hasValue =>
        /\ isEqualTypeErased(Analysis, BlockStates[b].Lattice, Recomputed(b).Lattice)
        /\ equivalentTo(BlockStates[b].Env, Recomputed(b).Env)

\* A run over a loop has returned a Store in which the loop head was
\* evaluated more than once and holds more than the seed.
C1_Witness ==
  /\ pc = "done"
  /\ cfg = LoopCFG
  /\ Visits[2] >= 2
  /\ BlockStates[2] # Some(typeErasedInitialElement(Analysis), InitEnv)
  /\ BlockStates[0].hasValue

\* C2: the Store has exactly one slot per block identifier of the graph, in
\* every state of the run and so in the Store a successful run returns.
C2_OneSlotPerBlock ==
  /\ DOMAIN BlockStates = Blocks(cfg)
  /\ Cardinality(DOMAIN BlockStates) = cfg.n

\* A run over a graph of six blocks has returned a Store with six slots,
\* one of them unset.
C2_Witness ==
  /\ pc = "done"
  /\ cfg.n = 6
  /\ Cardinality(DOMAIN BlockStates) = 6
  /\ \E b \in DOMAIN BlockStates : ~BlockStates[b].hasValue

RECURSIVE SumUpTo(_, _)
\* f[0] + ... + f[k]
SumUpTo(f, k) == IF k < 0 THEN 0 ELSE f[k] + SumUpTo(f, k - 1)

\* The number of blocks evaluated so far (join, transfer, compare).
TotalVisits == SumUpTo(Visits, cfg.n - 1)

\* A plugin that never converges on the graph: on the self-loop every
\* evaluation of B under the flipping plugin differs from the stored state.
NeverConverges == cfg = SelfLoopCFG /\ Analysis = FlipAnalysis

\* C3 as stated: the failure is reported after exactly MaxIterations
\* dequeues, every dequeue of a block being counted by Iterations.
C3_FailsAfterCapDequeues == pc = "timeout" => Iterations = MaxIterations

\* C3 amended: with a plugin that never converges the run does not return
\* the Store, and the failure is reported by dequeue number
\* MaxIterations + 1, after exactly MaxIterations blocks were evaluated.
C3_FailsOnDequeueAfterCap ==
  /\ NeverConverges => pc # "done"
  /\ pc = "timeout" => Iterations = MaxIterations + 1 /\ TotalVisits = MaxIterations

\* The run of the flipping plugin on the self-loop has failed, B having
\* been evaluated MaxIterations times.
C3_Witness ==
  /\ NeverConverges
  /\ pc = "timeout"
  /\ Visits[0] = MaxIterations

\* C4: the run ends in the Store or in the timeout failure and in nothing
\* else; a step fails exactly when it dequeues a block with the iteration
\* counter already at the cap, and returns the Store exactly when the queue
\* is empty; an outcome, once reached, stays.
C4_Outcomes ==
  [][/\ pc' \in {"loop", "done", "timeout"}
     /\ pc = "loop" =>
          /\ (pc' = "timeout") <=> (Worklist # {} /\ Iterations >= MaxIterations)
          /\ (pc' = "done") <=> (Worklist = {})
          /\ pc' = "done" => Iterations' <= MaxIterations /\ BlockStates' = BlockStates
     /\ pc # "loop" => pc' = pc]_vars

\* A run has failed with the queue not empty and the Store still in place,
\* another slot than the entry's being set.
C4_Witness ==
  /\ pc = "timeout"
  /\ Iterations > MaxIterations
  /\ \E b \in Blocks(cfg) \ {cfg.entry} : BlockStates[b].hasValue

RECURSIVE ReachedFrom(_, _)
\* The blocks reached from the blocks S along successor edges that leave a
\* block without a no-return element.
ReachedFrom(G, S) ==
  LET N == S \cup {t \in Blocks(G) :
                     \E f \in S : ~hasNoReturnElement(G, f) /\ t \in Range(Succs(G, f))}
  IN IF N = S THEN S ELSE ReachedFrom(G, N)

\* C5: when a run returns the Store, a slot is set exactly for the blocks
\* reachable from the entry block along successor edges whose source block
\* has no no-return element; every other slot is unset.
C5_UnsetIffUnreached ==
  pc = "done" =>
    \A b \in Blocks(cfg) : BlockStates[b].hasValue <=> b \in ReachedFrom(cfg, {cfg.entry})

\* A Store was returned in which a block whose only live predecessor has a
\* no-return element is unset while that predecessor is set.
C5_Witness ==
  /\ pc = "done"
  /\ \E b \in Blocks(cfg) :
       /\ ~BlockStates[b].hasValue
       /\ \E f \in cfg.noReturn : b \in Range(Succs(cfg, f)) /\ BlockStates[f].hasValue

\* C6: a step that dequeues a block with a no-return element enqueues
\* nothing: the queue after the step is the queue before it without the
\* block.  (The entry block has no elements, so it never carries the flag.)
C6_NoReturnEnqueuesNothing ==
  [][(pc = "loop" /\ Worklist # {} /\ hasNoReturnElement(cfg, dequeue(Worklist, POV)))
       => Worklist' = Worklist \ {dequeue(Worklist, POV)}]_vars

\* A block with a no-return element was evaluated and its state stored, and
\* a successor of it is neither evaluated nor enqueued.
C6_Witness ==
  \E f \in cfg.noReturn :
    /\ Visits[f] = 1
    /\ BlockStates[f].hasValue
    /\ \E t \in Range(Succs(cfg, f)) : t # Null /\ ~BlockStates[t].hasValue /\ t \notin Worklist

\* The seed: the plugin's initial element with the caller's Environment.
Seed == Some(typeErasedInitialElement(Analysis), InitEnv)

\* C7: in the returned Store the entry block holds the seed advanced by the
\* transfer of the entry block's own elements; the entry block has no
\* elements, so it holds the seed exactly.
C7_EntryIsSeed ==
  pc = "done" =>
    /\ BlockStates[cfg.entry] = transferElements(BlockStates, cfg.elems[cfg.entry], Analysis, Seed)
    /\ BlockStates[cfg.entry] = Seed

\* A Store was returned whose entry slot holds a seed that is neither the
\* zero element nor the empty Environment, other blocks holding other states.
C7_Witness ==
  /\ pc = "done"
  /\ typeErasedInitialElement(Analysis) # 0
  /\ InitEnv # 0
  /\ BlockStates[cfg.entry] = Seed
  /\ Visits[cfg.entry] = 0
  /\ TotalVisits >= 2

\* The plugins whose transfer is monotone.
Monotone(A) == A.tf # "flip"

CommutativeJoin(A) == A.join = "max"

\* In the diamonds D is block 0, B block 2 and C block 1.
Diamonds == {DiamondCFG, DiamondCFG2}

\* The join of two states by the plugin's join and the Environment's join.
JoinOf(A, s, t) == Some(joinTypeErased(A, s.Lattice, t.Lattice), EnvJoin(s.Env, t.Env))

\* The exit state of a block of the diamond whose only predecessor is the
\* entry block.
ExitFromSeed(b) == transferElements(BlockStates, cfg.elems[b], Analysis, Seed)

\* C9: in a diamond with a commutative plugin join, the input state of D is
\* the lattice join and the Environment join of the exit states of B and C,
\* and the state stored for D at the end is the one computed from the seed
\* alone, whichever of B and C is evaluated first and whichever comes first
\* in the iteration of D's predecessors.
C9_DiamondJoin ==
  (cfg \in Diamonds /\ CommutativeJoin(Analysis)) =>
    /\ InputState[0].hasValue =>
         /\ BlockStates[2].hasValue /\ BlockStates[1].hasValue
         /\ InputState[0] = JoinOf(Analysis, BlockStates[2], BlockStates[1])
    /\ pc = "done" =>
         /\ BlockStates[0] =
              transferElements(BlockStates, cfg.elems[0], Analysis,
                               JoinOf(Analysis, ExitFromSeed(2), ExitFromSeed(1)))
         /\ Visits[0] = 1

\* A diamond run has ended in which C was listed before B both among the
\* successors of A and in the iteration of D's predecessors, and the input
\* of D is the join of two different exit states and is neither of them.
C9_Witness ==
  /\ pc = "done"
  /\ cfg = DiamondCFG2
  /\ CommutativeJoin(Analysis)
  /\ PredOrder[1] = <<1, 2>>
  /\ InputState[0] = JoinOf(Analysis, BlockStates[2], BlockStates[1])
  /\ InputState[0] \notin {BlockStates[1], BlockStates[2]}

\* C10: in the chain A -> B -> C (B is block 1, C block 0) the final state
\* of C is the seed passed through B's elements and then C's, no join is
\* made and B and C are evaluated once each; with identity transfer
\* functions the final state of C is the seed.
C10_ChainNoJoin ==
  (cfg = ChainCFG /\ pc = "done") =>
    /\ BlockStates[0] =
         transferElements(BlockStates, cfg.elems[0], Analysis,
                          transferElements(BlockStates, cfg.elems[1], Analysis, Seed))
    /\ JoinCalls = 0
    /\ Visits[1] = 1 /\ Visits[0] = 1
    /\ Analysis.tf = "ident" => BlockStates[0] = Seed

\* A chain run with identity transfer functions has returned the Store, B
\* and C both holding the seed.
C10_Witness ==
  /\ cfg = ChainCFG
  /\ pc = "done"
  /\ Analysis.tf = "ident"
  /\ BlockStates[1] = Seed /\ BlockStates[0] = Seed
  /\ JoinCalls = 0

\* The blocks X with a temporary-destructor-branch terminator whose first
\* successor Y, the block that evaluates the destructor, has a no-return
\* element.
NoReturnDtorBranches(G) ==
  {X \in G.dtor : Len(Succs(G, X)) = 2 /\ hasNoReturnElement(G, Succs(G, X)[1])}

\* The states the input of X can be when the block of its terminator
\* statement is left out and at most one other predecessor survives: the
\* stored state of that predecessor, or the seed when there is none.
RemainingInputs(X) ==
  LET Ps == {P \in PredSet(cfg, X) \ {TerminatorStmtBlock(cfg, X), Null} :
               ~hasNoReturnElement(cfg, P) /\ BlockStates[P].hasValue}
  IN IF Ps = {} THEN {Seed} ELSE {BlockStates[P] : P \in Ps}

NoSurvivor(b) ==
  \A P \in Range(PredsToJoin(cfg, b, PredOrder[b + 1])) : SkipsPred(cfg, BlockStates, P)

\* C12: whatever the Store holds, computeBlockInputState yields a defined
\* state for every block, and when no predecessor survives the pruning and
\* the skipping it yields the plugin's initial element paired with the
\* caller's initial Environment, without any join; so every input state the
\* driver computed is defined.
C12_InputAlwaysDefined ==
  \A b \in Blocks(cfg) :
    LET R == computeBlockInputState(cfg, BlockStates, b, InitEnv, Analysis, PredOrder[b + 1])
    IN /\ R.State.hasValue
       /\ NoSurvivor(b) => R.State = Seed /\ R.joins = 0
       /\ Visits[b] > 0 => InputState[b].hasValue

\* The driver has evaluated the branch block B4 of the graph in which one
\* predecessor has a no-return element and the other holds the terminator
\* statement: both hold states that differ from the seed, none survives, and
\* the input computed for B4 is the seed.
C12_Witness ==
  /\ cfg = DtorSeedCFG
  /\ Visits[4] = 1
  /\ NoSurvivor(4)
  /\ BlockStates[2].hasValue /\ BlockStates[2] # Seed
  /\ BlockStates[3].hasValue /\ BlockStates[3] # Seed
  /\ InputState[4] = Seed
  /\ InitEnv # 0

\* A step of the main loop that evaluates the block it dequeues (the step
\* that reports the failure dequeues a block without evaluating it).
EvaluatingStep == pc = "loop" /\ Worklist # {} /\ Iterations < MaxIterations

\* The block the next step dequeues.
NextBlock == dequeue(Worklist, POV)

\* The candidate state of the next step.
Candidate == Recomputed(NextBlock)

\* Whether the candidate of the next step differs from the stored state:
\* the slot is unset, the lattice equality is false or the Environment
\* equivalence is false.
CandidateDiffers ==
  \/ ~BlockStates[NextBlock].hasValue
  \/ ~isEqualTypeErased(Analysis, BlockStates[NextBlock].Lattice, Candidate.Lattice)
  \/ ~equivalentTo(BlockStates[NextBlock].Env, Candidate.Env)

\* C13: a step that evaluates the dequeued block overwrites the block's
\* slot with the candidate state, and touches no other slot, exactly when
\* the slot was unset or the candidate differs from the stored state;
\* otherwise the candidate is discarded: the Store stays as it is and the
\* queue only loses the block.
C13_StoreIffDiffers ==
  [][EvaluatingStep =>
       /\ CandidateDiffers =>
            BlockStates' = [BlockStates EXCEPT ![NextBlock] = Candidate]
       /\ ~CandidateDiffers =>
            /\ BlockStates' = BlockStates
            /\ Worklist' = Worklist \ {NextBlock}]_vars

\* A run has ended in which a candidate was discarded although it was not
\* the stored state: under the coarse equality a block evaluated twice
\* holds its first state, which a fresh evaluation would not reproduce.
C13_Witness ==
  /\ pc = "done"
  /\ Analysis = CoarseAnalysis
  /\ \E b \in Blocks(cfg) :
       /\ Visits[b] >= 2
       /\ BlockStates[b].hasValue
       /\ BlockStates[b] # Recomputed(b)
       /\ isEqualTypeErased(Analysis, BlockStates[b].Lattice, Recomputed(b).Lattice)

\* The blocks the next step puts on the queue.
Enqueued == Worklist' \ (Worklist \ {NextBlock})

\* C14: a step that evaluates the dequeued block enqueues blocks only if
\* the candidate was stored and the block has no no-return element, and
\* then it enqueues the block's successors; a block with a no-return
\* element whose candidate differs has the candidate stored and enqueues
\* nothing.
C14_EnqueueOnlyIfChangedAndReturns ==
  [][EvaluatingStep =>
       /\ Enqueued # {} =>
            /\ CandidateDiffers
            /\ BlockStates'[NextBlock] = Candidate
            /\ ~hasNoReturnElement(cfg, NextBlock)
       /\ Enqueued \subseteq Range(Succs(cfg, NextBlock)) \ {Null}
       /\ (CandidateDiffers /\ ~hasNoReturnElement(cfg, NextBlock)) =>
            Worklist' = (Worklist \ {NextBlock}) \cup (Range(Succs(cfg, NextBlock)) \ {Null})
       /\ (CandidateDiffers /\ hasNoReturnElement(cfg, NextBlock)) =>
            /\ BlockStates'[NextBlock] = Candidate
            /\ Worklist' = Worklist \ {NextBlock}]_vars

\* A run over the graph with the no-return block has returned the Store:
\* the no-return block holds the state its evaluation produced, its
\* successor reached through it alone was never evaluated, and its other
\* successor was evaluated once, for the other predecessor.
C14_Witness ==
  /\ pc = "done"
  /\ cfg = NoReturnCFG
  /\ Visits[3] = 1
  /\ BlockStates[3].hasValue /\ BlockStates[3] = Recomputed(3)
  /\ BlockStates[3] # Seed
  /\ Visits[1] = 0 /\ ~BlockStates[1].hasValue
  /\ Visits[0] = 1

\* The states a set slot can hold.
States == [hasValue : {TRUE}, Lattice : 0..LatticeHeight, Env : 0..EnvHeight]

\* The input state computed for b from the Store BS with the predecessors
\* iterated in the order Order.
InputFrom(BS, b, Order) ==
  computeBlockInputState(cfg, BS, b, InitEnv, Analysis, Order)

\* The order Order without the predecessor P.
Without(Order, P) == SelectSeq(Order, LAMBDA q : q # P)

\* C15: in the predecessor join of every step that evaluates a block, a
\* predecessor that is null, has a no-return element or has an unset slot
\* contributes nothing: the input state, and the number of joins made, are
\* those computed without that predecessor, no error arises, and whatever
\* state a predecessor with a no-return element holds, the input state of
\* its successor is the same.
C15_SkippedPredsContributeNothing ==
  [][EvaluatingStep =>
       LET b == NextBlock
           Order == PredOrder[b + 1]
       IN \A P \in Range(Order) :
            /\ (P = Null \/ hasNoReturnElement(cfg, P) \/ ~BlockStates[P].hasValue) =>
                 /\ InputState'[b] = InputFrom(BlockStates, b, Without(Order, P)).State
                 /\ JoinCalls' - JoinCalls = InputFrom(BlockStates, b, Without(Order, P)).joins
            /\ (P # Null /\ hasNoReturnElement(cfg, P)) =>
                 \A s \in States \cup {None} :
                   InputState'[b] = InputFrom([BlockStates EXCEPT ![P] = s], b, Order).State]_vars

\* Block 1 of the graph with every kind of predecessor has been evaluated
\* for the first time: its predecessor behind the back edge is still unset,
\* one predecessor is null, the predecessor with the no-return element holds
\* a state, and the input of block 1 is the state of the ordinary
\* predecessor alone, which joining the no-return block's state would change.
C15_Witness ==
  /\ cfg = SkipsCFG
  /\ Visits[1] = 1
  /\ Null \in PredSet(cfg, 1)
  /\ ~BlockStates[0].hasValue
  /\ BlockStates[3].hasValue
  /\ InputState[1] = BlockStates[2]
  /\ JoinOf(Analysis, InputState[1], BlockStates[3]) # InputState[1]

\* Whether the predecessor P of b survives in the Store as it is: it is not
\* the block erased by the destructor-branch rule, not null, has no
\* no-return element and has a set slot.
Survives(b, P) ==
  /\ P # Null
  /\ ~(b \in NoReturnDtorBranches(cfg) /\ P = TerminatorStmtBlock(cfg, b))
  /\ ~hasNoReturnElement(cfg, P)
  /\ BlockStates[P].hasValue

\* The stored states of the surviving predecessors of b, in the iteration
\* order of b's predecessors.
SurvivingStates(b) ==
  LET Ps == SelectSeq(PredOrder[b + 1], LAMBDA P : Survives(b, P))
  IN [i \in 1..Len(Ps) |-> BlockStates[Ps[i]]]

RECURSIVE FoldJoin(_, _)
\* The first state of Ss with every later state of Ss merged into it, in
\* order, by the plugin's join and the Environment's join.
FoldJoin(A, Ss) ==
  IF Len(Ss) = 1 THEN Ss[1]
  ELSE JoinOf(A, FoldJoin(A, SubSeq(Ss, 1, Len(Ss) - 1)), Ss[Len(Ss)])

\* C16: the input state computed by a step that evaluates a block is the
\* combination of the stored states of the surviving predecessors and of
\* nothing else: the first surviving state as it is, with every later one
\* merged into it by the plugin's join and the Environment's join, one call
\* of the plugin's join per later state; the seed enters only when no
\* predecessor survives.
C16_InputIsJoinOfSurvivors ==
  [][EvaluatingStep =>
       LET b == NextBlock
           Ss == SurvivingStates(b)
       IN /\ Ss # <<>> =>
               /\ InputState'[b] = FoldJoin(Analysis, Ss)
               /\ JoinCalls' - JoinCalls = Len(Ss) - 1
          /\ Len(Ss) = 1 => InputState'[b] = Ss[1]
          /\ Ss = <<>> => InputState'[b] = Seed /\ JoinCalls' = JoinCalls]_vars

\* A run with the plugin whose join keeps its first argument has ended: a
\* block with one surviving predecessor got that predecessor's state as it
\* is, which joining it to the seed would have changed, and a block with two
\* surviving predecessors got the first state merged with the second, the
\* Environment's join having changed the first.
C16_Witness ==
  /\ pc = "done"
  /\ cfg = LogicCFG
  /\ Analysis = LeftAnalysis
  /\ InputState[2] = BlockStates[3]
  /\ JoinOf(Analysis, Seed, BlockStates[3]) # BlockStates[3]
  /\ PredOrder[2] = <<3, 2>>
  /\ InputState[1] = JoinOf(Analysis, BlockStates[3], BlockStates[2])
  /\ InputState[1] # BlockStates[3]
  /\ JoinCalls = 1

\* The input state made of the predecessors listed in Order that are not
\* null, have no no-return element and have a set slot: their stored states
\* merged in order, the seed when there is none.
JoinedInput(Order) ==
  LET Ps == SelectSeq(Order, LAMBDA P : /\ P # Null
                                         /\ ~hasNoReturnElement(cfg, P)
                                         /\ BlockStates[P].hasValue)
  IN IF Ps = <<>> THEN Seed
     ELSE FoldJoin(Analysis, [i \in 1..Len(Ps) |-> BlockStates[Ps[i]]])

\* C17: when the block a step evaluates has a temporary-destructor-branch
\* terminator and its first successor has a no-return element, the block
\* that holds the terminator statement is left out of the join, set slot or
\* not: the input is the one joined from the other predecessors.  When the
\* first successor has no no-return element, or the terminator is of
\* another kind, the input is joined from all the predecessors.
C17_TerminatorBlockExcluded ==
  [][EvaluatingStep =>
       LET b == NextBlock
           Order == PredOrder[b + 1]
           Rule == /\ isTemporaryDtorsBranch(cfg, b)
                   /\ hasNoReturnElement(cfg, Succs(cfg, b)[1])
       IN /\ Rule => InputState'[b] = JoinedInput(Without(Order, TerminatorStmtBlock(cfg, b)))
          /\ ~Rule => InputState'[b] = JoinedInput(Order)]_vars

\* The branch block B4 of the graph with the no-return destructor has been
\* evaluated: the block B3 that holds its terminator statement is a
\* predecessor with a set slot, and the input of B4 is the state of B2
\* alone, which differs from the join of the states of B2 and B3.
C17_Witness ==
  /\ cfg = DtorCFG
  /\ Visits[4] = 1
  /\ TerminatorStmtBlock(cfg, 4) = 3
  /\ 3 \in PredSet(cfg, 4)
  /\ BlockStates[3].hasValue /\ BlockStates[2].hasValue
  /\ InputState[4] = BlockStates[2]
  /\ InputState[4] # JoinOf(Analysis, BlockStates[2], BlockStates[3])
  /\ InputState[4] # JoinOf(Analysis, BlockStates[3], BlockStates[2])

\* The number of edges by which P reaches b.
EdgesFrom(P, b) == Cardinality({i \in 1..Len(Preds(cfg, b)) : Preds(cfg, b)[i] = P})

\* C18: the predecessors are deduplicated before the join: the iteration
\* order of a block's predecessors lists every block with an edge to it
\* once, however many edges it has, and a step that evaluates a block calls
\* the plugin's join once for every surviving predecessor block but the
\* first, not once per edge.
C18_PredsDeduplicated ==
  [][EvaluatingStep =>
       LET b == NextBlock
           Order == PredOrder[b + 1]
           D == {P \in Range(Preds(cfg, b)) : Survives(b, P)}
       IN /\ Range(Order) = Range(Preds(cfg, b))
          /\ \A i, j \in 1..Len(Order) : Order[i] = Order[j] => i = j
          /\ JoinCalls' - JoinCalls = IF D = {} THEN 0 ELSE Cardinality(D) - 1
          /\ InputState'[b] = JoinedInput(SelectSeq(Order, LAMBDA P : Survives(b, P)))]_vars

\* Block 0 of the graph with the doubled edge has been evaluated: block 2
\* reaches it by two edges and holds a state other than the seed, and the
\* input of block 0 is that state, taken once: no join was made.
C18_Witness ==
  /\ cfg = PrunedCFG
  /\ Visits[0] = 1
  /\ EdgesFrom(2, 0) = 2
  /\ BlockStates[2].hasValue /\ BlockStates[2] # Seed
  /\ InputState[0] = BlockStates[2]
  /\ JoinCalls = 0

\* C19: before the first dequeue, that is as long as no block has been
\* evaluated and no failure reported, the iteration counter is 0, every slot
\* of the Store is unset except the entry block's, which holds the plugin's
\* initial element with the caller's initial Environment, and the queue
\* holds exactly the successors of the entry block.
C19_InitState ==
  (TotalVisits = 0 /\ pc # "timeout") =>
    /\ Iterations = 0
    /\ \A b \in Blocks(cfg) \ {cfg.entry} : BlockStates[b] = None
    /\ BlockStates[cfg.entry] = Some(typeErasedInitialElement(Analysis), InitEnv)
    /\ Worklist = {b \in Blocks(cfg) : \E i \in 1..Len(cfg.edges) :
                     cfg.edges[i] = <<cfg.entry, b, TRUE>>}
    /\ Worklist # {}
    /\ JoinCalls = 0

\* The driver is about to dequeue for the first time on a graph of six
\* blocks, with a plugin whose initial element is not the least and a
\* caller's Environment that is not empty: five slots are unset and the
\* queue holds the one successor of the entry block.
C19_Witness ==
  /\ pc = "loop"
  /\ Iterations = 0
  /\ cfg = NoReturnCFG
  /\ typeErasedInitialElement(Analysis) # 0
  /\ InitEnv # 0
  /\ BlockStates[5] = Seed
  /\ Cardinality({b \in Blocks(cfg) : ~BlockStates[b].hasValue}) = 5
  /\ Worklist = {4}

RECURSIVE Descendants(_, _)
\* The blocks reached from the blocks S along successor edges.
Descendants(G, S) ==
  LET N == S \cup {t \in Blocks(G) : \E f \in S : t \in Range(Succs(G, f))}
  IN IF N = S THEN S ELSE Descendants(G, N)

\* Whether the edge from P to b can be a loop back edge: b leads back to P.
OnLoopWith(P, b) == P \in Descendants(cfg, {b})

\* C20: whenever the driver is about to compute the input state of a block,
\* every predecessor block of it, except those that reach it through a loop
\* back edge, has been transferred: its slot is set.
C20_PredsTransferredFirst ==
  EvaluatingStep =>
    \A P \in PredSet(cfg, NextBlock) \ {Null} :
      ~OnLoopWith(P, NextBlock) => BlockStates[P].hasValue

\* The calls the last call of transferBlock made for element k of its block.
CallsOf(k) == SelectSeq(Events.calls, LAMBDA c : c.elem = k)

\* The running state of the last call of transferBlock before element k.
RunningBefore(k) ==
  transferElements(BlockStates, SubSeq(cfg.elems[Events.block], 1, k - 1), Analysis,
                   InputFrom(BlockStates, Events.block, PredOrder[Events.block + 1]).State)

\* C21: a call of transferBlock goes through the elements of the block in
\* declaration order on one running state; for a statement it calls the
\* built-in transfer exactly if the plugin's flag is set, then the plugin's
\* transfer on the state the built-in transfer left, then the callback
\* exactly if one was passed, with the state as it is after both transfers;
\* other elements make no call, and the state returned is the running state
\* after the last element.
C21_TransferOrder ==
  Events.block # Null =>
    LET Es == cfg.elems[Events.block]
        Cs == Events.calls
    IN /\ \A i, j \in 1..Len(Cs) : i < j => Cs[i].elem <= Cs[j].elem
       /\ \A k \in 1..Len(Es) :
            LET Ck == CallsOf(k)
                Before == RunningBefore(k)
                Built == IF Analysis.builtin THEN Ck[1].state ELSE Before
                Plugin == IF Analysis.builtin THEN 2 ELSE 1
            IN IF Es[k].kind # "Statement" THEN Ck = <<>>
               ELSE /\ [i \in 1..Len(Ck) |-> Ck[i].call] =
                         (IF Analysis.builtin THEN <<"transfer">> ELSE <<>>)
                         \o <<"transferTypeErased">>
                         \o (IF Events.handle THEN <<"HandleTransferredStmt">> ELSE <<>>)
                    /\ Analysis.builtin =>
                         /\ Ck[1].state.Lattice = Before.Lattice
                         /\ Ck[1].state.Env = transfer(BlockStates, Es[k], Before.Env)
                    /\ Ck[Plugin].state = transferTypeErased(Analysis, Es[k], Built)
                    /\ Ck[Plugin].state = RunningBefore(k + 1)
                    /\ Events.handle => Ck[Plugin + 1].state = Ck[Plugin].state
       /\ Events.state = RunningBefore(Len(Es) + 1)

\* A caller has called transferBlock with a callback on the block B4 that
\* holds the conditional operator, under the plugin that reads the
\* Environment: the built-in transfer of the operator changed the
\* Environment, so the plugin's transfer, coming second, left another state
\* than it would have coming first, and the callback got the state after both.
C21_Witness ==
  /\ cfg = DtorOperandCFG
  /\ Analysis = EnvReadingAnalysis
  /\ Events.block = 4
  /\ Events.handle
  /\ Len(Events.calls) = 6
  /\ CallsOf(2)[1].state # RunningBefore(2)
  /\ CallsOf(2)[2].state # transferTypeErased(Analysis, cfg.elems[4][2], RunningBefore(2))
  /\ CallsOf(2)[3].call = "HandleTransferredStmt"
  /\ CallsOf(2)[3].state = CallsOf(2)[2].state
  /\ CallsOf(2)[3].state # CallsOf(2)[1].state

\* Whether the element E does nothing under the plugin A: an initializer
\* when the built-in transfer is off, an initializer whose expression has
\* no storage location or whose location has no value, an element that is
\* neither a statement nor an initializer.
DoesNothing(E, A) ==
  \/ E.kind = "Initializer" /\ ~A.builtin
  \/ E.kind = "Initializer" /\ (~E.loc \/ ~E.val)
  \/ E.kind \notin {"Statement", "Initializer"}

\* The elements tried: every initializer and the element of another kind.
ElementsTried ==
  {Initializer(l, v, r) : l \in BOOLEAN, v \in BOOLEAN, r \in BOOLEAN} \cup {OtherElement}

SlotsChanged == {b \in Blocks(cfg) : BlockStates'[b] # BlockStates[b]}

\* C23: a step of the driver changes at most one slot of the Store, the
\* dequeued block's: the slots of its predecessors, joined into its input,
\* stay as they are, and so does the whole Store in a step that discards
\* the candidate, reports the failure or returns, and in a call of
\* transferBlock by itself, which joins and transfers without storing.
C23_OneSlotPerStep ==
  [][/\ Cardinality(SlotsChanged) <= 1
     /\ EvaluatingStep => SlotsChanged \subseteq {NextBlock}
     /\ (EvaluatingStep /\ ~CandidateDiffers) => SlotsChanged = {}
     /\ ~EvaluatingStep => SlotsChanged = {}]_vars

\* The join block of a diamond has been evaluated on the join of two
\* different states, which is neither of them and is now stored for the
\* block, and its two predecessors still hold the states their own
\* evaluation gave them.
C23_Witness ==
  /\ cfg = DiamondCFG
  /\ Visits[0] = 1
  /\ InputState[0] = JoinOf(Analysis, BlockStates[2], BlockStates[1])
  /\ InputState[0] \notin {BlockStates[1], BlockStates[2]}
  /\ BlockStates[0].hasValue
  /\ BlockStates[1] = ExitFromSeed(1)
  /\ BlockStates[2] = ExitFromSeed(2)

\* The elements of block b for which the built-in transfer calls
\* getEnvironment: the statements with a sub-expression in another block,
\* when the plugin's flag is set.
AccessorCalls(b) ==
  {k \in 1..Len(cfg.elems[b]) :
     /\ Analysis.builtin
     /\ cfg.elems[b][k].kind = "Statement"
     /\ cfg.elems[b][k].ref # Null}

C25_Terminates ==
  /\ <>(pc \in {"done", "timeout"})
  /\ [](TotalVisits <= MaxIterations)

\* A run of the plugin that is not monotone has been stopped by the cap,
\* on the dequeue after exactly MaxIterations evaluated blocks.
C25_Witness ==
  /\ Analysis = FlipAnalysis
  /\ pc = "timeout"
  /\ Iterations = MaxIterations + 1
  /\ TotalVisits = MaxIterations

\* C26: the slot of the entry block is set in every state of the main loop
\* and after it, and no step of the driver makes a set slot unset: a slot
\* that holds a state holds one, the same or another, after every step.
C26_SlotsStaySet ==
  [][/\ BlockStates[cfg.entry].hasValue
     /\ BlockStates'[cfg.entry].hasValue
     /\ \A b \in Blocks(cfg) : BlockStates[b].hasValue => BlockStates'[b].hasValue]_vars

\* The head of the loop has been evaluated twice and its slot, first set to
\* the state of the entry block, holds another state with a greater lattice
\* element.
C26_Witness ==
  /\ cfg = LoopCFG
  /\ Visits[2] = 2
  /\ BlockStates[cfg.entry].hasValue
  /\ BlockStates[2].hasValue
  /\ BlockStates[2].Lattice > typeErasedInitialElement(Analysis)

\* A graph without a cycle: no block is reached from its own successors.
Acyclic(G) ==
  \A b \in Blocks(G) : b \notin Descendants(G, Range(Succs(G, b)) \ {Null})

\* C27: on an acyclic graph every block is dequeued at most once in a run:
\* no block is evaluated twice, the dequeues and the evaluated blocks number
\* at most the blocks other than the entry block, and the run does not end
\* in the timeout failure.
C27_AcyclicOnce ==
  Acyclic(cfg) =>
    /\ \A b \in Blocks(cfg) : Visits[b] <= 1
    /\ Visits[cfg.entry] = 0
    /\ Iterations <= cfg.n - 1
    /\ TotalVisits = Iterations
    /\ pc # "timeout"

\* The run on the diamond has returned, every block but the entry block
\* evaluated once, the join block with both branches enqueued before it.
C27_Witness ==
  /\ cfg = DiamondCFG
  /\ Acyclic(cfg)
  /\ pc = "done"
  /\ \A b \in Blocks(cfg) \ {cfg.entry} : Visits[b] = 1
  /\ TotalVisits = cfg.n - 1

\* The plugins whose lattice join is commutative and associative on the
\* lattice elements, the Environment join being so on the Environments.
CommutativeAssociative(A) ==
  /\ \A x, y \in 0..LatticeHeight : joinTypeErased(A, x, y) = joinTypeErased(A, y, x)
  /\ \A x, y, z \in 0..LatticeHeight :
       joinTypeErased(A, joinTypeErased(A, x, y), z)
         = joinTypeErased(A, x, joinTypeErased(A, y, z))
  /\ \A x, y \in 0..EnvHeight : EnvJoin(x, y) = EnvJoin(y, x)
  /\ \A x, y, z \in 0..EnvHeight :
       EnvJoin(EnvJoin(x, y), z) = EnvJoin(x, EnvJoin(y, z))

\* C28: with a plugin whose joins are commutative and associative, every
\* step of the driver that evaluates a block yields the state that a run
\* iterating the block's predecessors in any other order yields from the
\* same Store, queue and counter: the same Store, the same queue, the same
\* counter.  The steps that end the run do not read the order.  Two runs
\* that differ only in the iteration orders therefore go through the same
\* states and end in the same outcome.
C28_OrderIndependent ==
  [][(EvaluatingStep /\ CommutativeAssociative(Analysis)) =>
       \A o \in Perms(PredSet(cfg, NextBlock)) :
         LET New == transferBlock(cfg, BlockStates, NextBlock, InitEnv, Analysis, o)
             Same == Unchanged(Analysis, BlockStates[NextBlock], New.State)
             Rest == Worklist \ {NextBlock}
         IN /\ BlockStates' = IF Same THEN BlockStates
                              ELSE [BlockStates EXCEPT ![NextBlock] = New.State]
            /\ Worklist' = IF Same \/ ~EnqueuesSuccessors(cfg, NextBlock) THEN Rest
                           ELSE enqueueSuccessors(Rest, cfg, NextBlock)
            /\ Iterations' = Iterations + 1
            /\ pc' = pc]_vars

\* The block of the logical operator has been evaluated with a plugin whose
\* joins commute, its two predecessors holding different states, iterated
\* in descending order: the input is the join of the two in either order.
C28_Witness ==
  /\ cfg = LogicCFG
  /\ CommutativeAssociative(Analysis)
  /\ PredOrder[2] = <<3, 2>>
  /\ Visits[1] = 1
  /\ BlockStates[3].hasValue /\ BlockStates[2].hasValue
  /\ BlockStates[3] # BlockStates[2]
  /\ InputState[1] = JoinOf(Analysis, BlockStates[3], BlockStates[2])
  /\ InputState[1] = JoinOf(Analysis, BlockStates[2], BlockStates[3])

====
